---- MODULE Spec2Model ----
(***************************************************************************)
(* Model of simulate() in src/03_flood_ca_simulation/simulate.py: the      *)
(* cellular-automaton flood simulation over a 2-D elevation grid.          *)
(*                                                                         *)
(* Numbers.  The program computes in floating point.  The model computes   *)
(* exactly, in fixed point: every length (elevation, depth, rain per step, *)
(* infiltration) is an integer count of 1/unit millimetres, where unit is  *)
(* chosen per run so that every division the run performs (by 5, by 20,    *)
(* by 10, by steps) is exact.  The update rule is positively homogeneous,  *)
(* so the choice of unit does not change the modelled behaviour.           *)
(***************************************************************************)
EXTENDS Integers, FiniteSets, Sequences, TLC

VARIABLES shape, dem, rainfall_mm, steps, infiltration_m, allow_edge_outflow,
          unit, water, rain_per_step, H, flux, moved, i, pc, outcome

vars == <<shape, dem, rainfall_mm, steps, infiltration_m, allow_edge_outflow,
          unit, water, rain_per_step, H, flux, moved, i, pc, outcome>>

(* ------------------------------ bounds --------------------------------- *)
\* Largest number of cells of a terrain whose elevations are enumerated in full.
MaxCells == 6
\* Largest step count of the parameter sweep.
MaxSteps == 3
\* Largest number of decimal digits of unit (keeps all values inside 32 bits).
MaxUnitDigits == 8

(* --------------------------- grid helpers ------------------------------ *)
Rows(sh) == sh[1]
Cols(sh) == sh[2]
Cells(sh) == (0 .. Rows(sh) - 1) \X (0 .. Cols(sh) - 1)

\* np.zeros_like
ZerosLike(sh) == [x \in Cells(sh) |-> 0]

\* a shift that repeats the edge value instead of wrapping around
RollNoWrap(A, k, axis, sh) ==
    LET lim(n, hi) == IF n < 0 THEN 0 ELSE IF n > hi THEN hi ELSE n
    IN [x \in Cells(sh) |->
          IF axis = 0 THEN A[<<lim(x[1] - k, Rows(sh) - 1), x[2]>>]
                      ELSE A[<<x[1], lim(x[2] - k, Cols(sh) - 1)>>]]

\* np.roll(A, k, axis): result[idx] = A[idx - k], indices modulo the axis length.
Roll(A, k, axis, sh) ==
    [x \in Cells(sh) |->
        IF axis = 0 THEN A[<<(x[1] - k) % Rows(sh), x[2]>>]
                    ELSE A[<<x[1], (x[2] - k) % Cols(sh)>>]]

\* a clip that does not clamp
Clip0NoClamp(v) == v

\* np.clip(v, 0, None) on one value
Clip0(v) == IF v < 0 THEN 0 ELSE v

\* np.clip(A, 0, None)
Clip(A, sh) == [x \in Cells(sh) |-> Clip0(A[x])]

\* Von Neumann neighbourhood (N,S,E,W) as (di, dj)
neighbours == <<(<<-1, 0>>), (<<1, 0>>), (<<0, -1>>), (<<0, 1>>)>>

\* np.roll(np.roll(A, di, axis=0), dj, axis=1)
Shifted(A, d, sh) == Roll(Roll(A, d[1], 0, sh), d[2], 1, sh)

\* 0.2 * v and 0.05 * v and 0.7 * v (exact: unit makes the divisions exact)
Times02(v) == v \div 5
Times005(v) == v \div 20
Times07(v) == (v \div 10) * 7

(* --------------------------- step operators ---------------------------- *)
\* line 43: water += rain_per_step
AddRainfall(w, rps, sh) == [x \in Cells(sh) |-> w[x] + rps]

\* line 46: H = dem + water
Surface(d, w, sh) == [x \in Cells(sh) |-> d[x] + w[x]]

\* lines 49-53: flux = sum over the four directions of clip(H - shifted, 0)
RECURSIVE FluxUpTo(_, _, _)
FluxUpTo(h, n, sh) ==
    IF n = 0 THEN ZerosLike(sh)
    ELSE LET prev == FluxUpTo(h, n - 1, sh)
             shifted == Shifted(h, neighbours[n], sh)
         IN [x \in Cells(sh) |-> prev[x] + Clip0(h[x] - shifted[x])]

Flux(h, sh) == FluxUpTo(h, Len(neighbours), sh)

\* line 55: moved = 0.2 * flux
Moved(f, sh) == [x \in Cells(sh) |-> Times02(f[x])]

\* line 56: water = clip(water - moved, 0)
RemoveOutflow(w, m, sh) == Clip([x \in Cells(sh) |-> w[x] - m[x]], sh)

\* lines 58-59: water += 0.05 * roll(roll(moved, -di, 0), -dj, 1), per direction
RECURSIVE InflowUpTo(_, _, _, _)
InflowUpTo(w, m, n, sh) ==
    IF n = 0 THEN w
    ELSE LET prev == InflowUpTo(w, m, n - 1, sh)
             d == neighbours[n]
             src == Shifted(m, <<-d[1], -d[2]>>, sh)
         IN [x \in Cells(sh) |-> prev[x] + Times005(src[x])]

\* a redistribution that recomputes what moves from the depths as they are
\* after the outflow removal, in place of the amounts of the snapshot
RedistributeInPlace(w, m, sh) ==
    InflowUpTo(w, Moved(Flux(Surface(dem, w, sh), sh), sh), Len(neighbours), sh)

Redistribute(w, m, sh) == InflowUpTo(w, m, Len(neighbours), sh)

\* line 62: water = clip(water - infiltration_m, 0)
Infiltration(w, inf, sh) == Clip([x \in Cells(sh) |-> w[x] - inf], sh)

\* water[r,:] *= 0.7 (r = -1 is the last row)
ScaleRow(w, r, sh) ==
    [x \in Cells(sh) |-> IF x[1] = r % Rows(sh) THEN Times07(w[x]) ELSE w[x]]

\* water[:,c] *= 0.7 (c = -1 is the last column)
ScaleCol(w, c, sh) ==
    [x \in Cells(sh) |-> IF x[2] = c % Cols(sh) THEN Times07(w[x]) ELSE w[x]]

\* the border multiplications applied whatever the flag says
EdgeOutflowAlways(w, allow, sh) ==
    ScaleCol(ScaleCol(ScaleRow(ScaleRow(w, 0, sh), -1, sh), 0, sh), -1, sh)

\* lines 65-66: the four in-place border multiplications, in order
EdgeOutflow(w, allow, sh) ==
    IF allow
    THEN ScaleCol(ScaleCol(ScaleRow(ScaleRow(w, 0, sh), -1, sh), 0, sh), -1, sh)
    ELSE w

(* ------------------------------ inputs --------------------------------- *)
\* Elevations (mm) a terrain cell may have.
Elevs == {0, 1}
\* total rainfall (mm), step counts and infiltration per step (in hundredths of
\* a millimetre: 0.02 mm and 1 mm, and a negative value) of the sweep
RainChoices == {-2, 0, 2}
StepChoices == -1 .. MaxSteps
InfilChoices == {-1, 0, 2, 100}

\* every shape of at most MaxCells cells
Shapes == {sh \in (1 .. MaxCells) \X (1 .. MaxCells) : sh[1] * sh[2] <= MaxCells}

\* every terrain over those shapes, each cell at one of Elevs
FullTerrains ==
    UNION {{[shape |-> sh, elev |-> e] : e \in [Cells(sh) -> Elevs]} : sh \in Shapes}

\* 3x3 and 4x4 terrains: flat, or flat with one raised cell
SquareTerrains ==
    UNION {{[shape |-> sh, elev |-> [x \in Cells(sh) |-> b]] : b \in Elevs}
           \cup {[shape |-> sh, elev |-> [x \in Cells(sh) |-> IF x = p THEN 1 ELSE 0]] :
                    p \in Cells(sh)}
           : sh \in {<<3, 3>>, <<4, 4>>}}

Terrains == FullTerrains \cup SquareTerrains

\* the sweep, plus the two scenarios of the specification's section 8
Configs ==
    [rainfall : RainChoices, steps : StepChoices, infil : InfilChoices, edge : BOOLEAN]
    \cup {[rainfall |-> 100, steps |-> 10, infil |-> 0, edge |-> FALSE],
          [rainfall |-> 50, steps |-> 1, infil |-> 0, edge |-> FALSE]}

(* ------------------------ fixed-point resolution ----------------------- *)
Abs(n) == IF n < 0 THEN -n ELSE n

RECURSIVE Gcd(_, _)
Gcd(a, b) == IF b = 0 THEN a ELSE Gcd(b, a % b)

RECURSIVE Pow10(_)
Pow10(n) == IF n = 0 THEN 1 ELSE 10 * Pow10(n - 1)

Flat(e, sh) == \A x, y \in Cells(sh) : e[x] = e[y]

\* the largest number of the four border slices of line 66 one cell lies in
EdgeMult(sh) == (IF Rows(sh) = 1 THEN 2 ELSE 1) + (IF Cols(sh) = 1 THEN 2 ELSE 1)

\* decimal digits one step needs: 0.2 * 0.05 = 1/100, then 0.7 per border slice
StepDigits(t, c) ==
    IF c.edge THEN 2 + EdgeMult(t.shape)
    ELSE IF Flat(t.elev, t.shape) THEN 0 ELSE 2

\* decimal digits a multiple of 0.01 mm needs
InfilDigits(c) == IF c.infil % 100 = 0 THEN 0 ELSE 2

UnitDigits(t, c) ==
    LET run == StepDigits(t, c) * (IF c.steps > 0 THEN c.steps ELSE 0)
    IN IF run >= InfilDigits(c) THEN run ELSE InfilDigits(c)

\* makes rainfall / steps exact
RainDen(c) ==
    IF c.steps = 0 THEN 1 ELSE Abs(c.steps) \div Gcd(Abs(c.steps), Abs(c.rainfall))

\* units per millimetre of a run
Unit(t, c) == RainDen(c) * Pow10(UnitDigits(t, c))

\* an infiltration of k hundredths of a millimetre, in units
InfiltrationUnits(k, u) ==
    IF k % 100 = 0 THEN (k \div 100) * u ELSE k * (u \div 100)

(* ------------------------------ the run -------------------------------- *)
\* the call simulate(dem, rainfall_mm, steps, infiltration_m, allow_edge_outflow)
Init ==
    \E t \in Terrains, c \in Configs :
        /\ UnitDigits(t, c) <= MaxUnitDigits
        /\ shape = t.shape
        /\ unit = Unit(t, c)
        /\ dem = [x \in Cells(t.shape) |-> t.elev[x] * Unit(t, c)]
        /\ rainfall_mm = c.rainfall
        /\ steps = c.steps
        /\ infiltration_m = InfiltrationUnits(c.infil, Unit(t, c))
        /\ allow_edge_outflow = c.edge
        /\ water = ZerosLike(t.shape)
        /\ rain_per_step = 0
        /\ H = ZerosLike(t.shape)
        /\ flux = ZerosLike(t.shape)
        /\ moved = ZerosLike(t.shape)
        /\ i = 0
        /\ pc = "call"
        /\ outcome = "none"

\* the total rainfall, not divided by the number of steps
RainPerStepTotal(r, s, u) == r * u

\* (rainfall_mm / 1000.0) / steps, in units (1 m = 1000 * unit)
RainPerStep(r, s, u) ==
    IF s > 0 THEN (r * u) \div s ELSE -((r * u) \div (-s))

inputs == <<shape, dem, rainfall_mm, steps, infiltration_m, allow_edge_outflow, unit>>

\* lines 35-36: water = zeros; rain_per_step = ...; division by zero raises
Enter ==
    /\ pc = "call"
    /\ water' = ZerosLike(shape)
    /\ IF steps = 0
       THEN /\ pc' = "raised"
            /\ outcome' = "ZeroDivisionError"
            /\ UNCHANGED rain_per_step
       ELSE /\ pc' = "loop"
            /\ rain_per_step' = RainPerStep(rainfall_mm, steps, unit)
            /\ UNCHANGED outcome
    /\ UNCHANGED <<inputs, H, flux, moved, i>>

\* lines 41-43: next iteration of range(steps); water += rain_per_step
AddRain ==
    /\ pc = "loop"
    /\ i < steps
    /\ water' = AddRainfall(water, rain_per_step, shape)
    /\ pc' = "surface"
    /\ UNCHANGED <<inputs, rain_per_step, H, flux, moved, i, outcome>>

\* line 46
ComputeSurface ==
    /\ pc = "surface"
    /\ H' = Surface(dem, water, shape)
    /\ pc' = "flux"
    /\ UNCHANGED <<inputs, water, rain_per_step, flux, moved, i, outcome>>

\* lines 49-53
AccumulateFlux ==
    /\ pc = "flux"
    /\ flux' = Flux(H, shape)
    /\ pc' = "outflow"
    /\ UNCHANGED <<inputs, water, rain_per_step, H, moved, i, outcome>>

\* lines 55-56
OutflowRemoval ==
    /\ pc = "outflow"
    /\ moved' = Moved(flux, shape)
    /\ water' = RemoveOutflow(water, Moved(flux, shape), shape)
    /\ pc' = "inflow"
    /\ UNCHANGED <<inputs, rain_per_step, H, flux, i, outcome>>

\* lines 58-59
InflowRedistribution ==
    /\ pc = "inflow"
    /\ water' = Redistribute(water, moved, shape)
    /\ pc' = "infiltrate"
    /\ UNCHANGED <<inputs, rain_per_step, H, flux, moved, i, outcome>>

\* line 62
InfiltrationLoss ==
    /\ pc = "infiltrate"
    /\ water' = Infiltration(water, infiltration_m, shape)
    /\ pc' = "edge"
    /\ UNCHANGED <<inputs, rain_per_step, H, flux, moved, i, outcome>>

\* lines 65-66, and the end of the loop body
EdgeOutflowStep ==
    /\ pc = "edge"
    /\ water' = EdgeOutflow(water, allow_edge_outflow, shape)
    /\ i' = i + 1
    /\ pc' = "loop"
    /\ UNCHANGED <<inputs, rain_per_step, H, flux, moved, outcome>>

\* line 68: range(steps) is exhausted; return water
Return ==
    /\ pc = "loop"
    /\ i >= steps
    /\ pc' = "done"
    /\ outcome' = "returned"
    /\ UNCHANGED <<inputs, water, rain_per_step, H, flux, moved, i>>

Next ==
    \/ Enter
    \/ AddRain
    \/ ComputeSurface
    \/ AccumulateFlux
    \/ OutflowRemoval
    \/ InflowRedistribution
    \/ InfiltrationLoss
    \/ EdgeOutflowStep
    \/ Return

Spec == Init /\ [][Next]_vars

(* --------------------------- sanity of the model ----------------------- *)
\* every division the run performs is exact in the chosen unit
ExactArithmetic ==
    /\ infiltration_m % unit # 0 => unit % 100 = 0
    /\ pc = "loop" /\ steps # 0 => (rainfall_mm * unit) % Abs(steps) = 0
    /\ pc = "outflow" => \A x \in Cells(shape) : flux[x] % 100 = 0
    /\ pc = "edge" /\ allow_edge_outflow =>
          \A x \in Cells(shape) : water[x] % Pow10(EdgeMult(shape)) = 0

(* ------------------------------ claims --------------------------------- *)
RECURSIVE SumOver(_, _)
SumOver(A, S) ==
    IF S = {} THEN 0
    ELSE LET x == CHOOSE y \in S : TRUE IN A[x] + SumOver(A, S \ {x})

\* the sum of all cells of a grid
SumGrid(A) == SumOver(A, Cells(shape))

\* the run is between two steps, or has returned
AfterStep == pc \in {"loop", "done"}

\* the configuration satisfies the documented constraints
ValidConfig == rainfall_mm >= 0 /\ infiltration_m >= 0 /\ steps >= 1

\* C1. Non-negativity: with non-negative rainfall and infiltration and at least
\* one step, every cell's depth is >= 0 after every step and in the returned
\* grid, with edge outflow enabled or disabled.
NonNegativity ==
    ValidConfig /\ AfterStep => \A x \in Cells(shape) : water[x] >= 0

\* a returned two-step run with infiltration and edge outflow, in which one cell
\* was drained to zero and another holds water
NonNegativityWitness ==
    /\ pc = "done" /\ ValidConfig /\ steps >= 2 /\ rainfall_mm > 0
    /\ infiltration_m > 0 /\ allow_edge_outflow
    /\ \E x, y \in Cells(shape) : water[x] = 0 /\ water[y] > 0

\* C2. Mass conservation of flow redistribution: with no infiltration and no
\* edge outflow, the sum of depths after a step equals the sum before the step
\* plus the rain of that step (H - dem is the depth grid right after the rain
\* of the last step was added); and a single-step run with 50 mm of rain
\* returns depths that sum to 50 mm times the number of cells.
MassConservation ==
    /\ (infiltration_m = 0 /\ ~allow_edge_outflow /\ AfterStep /\ i >= 1)
          => SumGrid(water) = SumGrid(H) - SumGrid(dem)
    /\ (pc = "done" /\ steps = 1 /\ rainfall_mm = 50
            /\ infiltration_m = 0 /\ ~allow_edge_outflow)
          => SumGrid(water) = 50 * unit * Cardinality(Cells(shape))

\* C3. Idempotent zero case: with no rainfall and no infiltration, on any
\* terrain, every cell's depth is zero after every step.
IdempotentZero ==
    (rainfall_mm = 0 /\ infiltration_m = 0 /\ AfterStep)
        => \A x \in Cells(shape) : water[x] = 0

\* C4. Monotonic loss under infiltration: with no rainfall and positive
\* infiltration the sum of depths after a step is at most the sum before it
\* (with no rain, H - dem is the depth grid the last step started from).
MonotonicLoss ==
    (rainfall_mm = 0 /\ infiltration_m > 0 /\ AfterStep /\ i >= 1)
        => SumGrid(water) <= SumGrid(H) - SumGrid(dem)

\* the 4x4 terrain of elevation 0 with 100 mm of rain over 10 steps, no
\* infiltration, no edge outflow
FlatScenario ==
    /\ shape = <<4, 4>> /\ \A x \in Cells(shape) : dem[x] = 0
    /\ rainfall_mm = 100 /\ steps = 10
    /\ infiltration_m = 0 /\ ~allow_edge_outflow

\* C5 as stated: the flat 4x4 scenario returns a depth of 0.01 m (10 mm) in
\* every cell.
FlatScenarioTenMillimetres ==
    (pc = "done" /\ FlatScenario) => \A x \in Cells(shape) : water[x] = 10 * unit

\* C5. Flat 4x4 scenario, amended: the run returns a depth of 0.1 m (100 mm,
\* the whole rainfall) in every cell.
FlatScenarioHundredMillimetres ==
    (pc = "done" /\ FlatScenario) => \A x \in Cells(shape) : water[x] = 100 * unit

\* the flat 4x4 scenario has returned after its ten steps
FlatScenarioWitness == pc = "done" /\ FlatScenario /\ i = 10

\* all cells of a grid hold the same value
Uniform(A) == \A x, y \in Cells(shape) : A[x] = A[y]

\* a constant-elevation terrain under positive rainfall and no infiltration
FlatRainNoInfiltration ==
    Flat(dem, shape) /\ rainfall_mm > 0 /\ infiltration_m = 0 /\ steps >= 1

\* C6 as stated: on a constant-elevation terrain with positive rainfall and no
\* infiltration the run ends in a grid whose cells all have the same depth,
\* whatever edge_outflow_enabled and the grid size are.
UniformOnFlat ==
    (FlatRainNoInfiltration /\ pc = "done") => Uniform(water)

\* C6. Periodic-boundary parity, amended: with edge outflow disabled, on a
\* constant-elevation terrain with positive rainfall and no infiltration, all
\* cells have the same depth after every step.
UniformOnFlatNoEdge ==
    (FlatRainNoInfiltration /\ ~allow_edge_outflow /\ AfterStep) => Uniform(water)

\* a multi-step run on a flat terrain of at least six cells, without edge
\* outflow, has returned a grid that holds water
UniformOnFlatNoEdgeWitness ==
    /\ FlatRainNoInfiltration /\ ~allow_edge_outflow /\ pc = "done"
    /\ steps >= 2 /\ Cardinality(Cells(shape)) >= 6
    /\ \A x \in Cells(shape) : water[x] > 0

\* C7. Configuration errors are eager: a negative rainfall or infiltration or
\* a step count <= 0 ends in ConfigError before any step and never returns a
\* grid; an accepted configuration never fails.
EagerConfigErrors ==
    /\ ~ValidConfig => /\ pc \in {"call", "raised"}
                       /\ outcome \in {"none", "ConfigError"}
    /\ ValidConfig => outcome \in {"none", "returned"}

\* a cell of the first or last row or of the first or last column
Border(x, sh) ==
    x[1] \in {0, Rows(sh) - 1} \/ x[2] \in {0, Cols(sh) - 1}

\* C8. Edge outflow: the edge-outflow part of a step multiplies every border
\* cell, corners included, by 0.7 when enabled and leaves every other cell
\* as it is; when disabled it changes no cell; for every grid size.
EdgeOutflowTimes07 ==
    [][pc = "edge" =>
        water' = [x \in Cells(shape) |->
                    IF allow_edge_outflow /\ Border(x, shape)
                    THEN Times07(water[x]) ELSE water[x]]]_vars

\* the four wrap-around neighbours of a cell: north, south, west, east
Nbrs4(x, sh) ==
    << <<(x[1] - 1) % Rows(sh), x[2]>>, <<(x[1] + 1) % Rows(sh), x[2]>>,
       <<x[1], (x[2] - 1) % Cols(sh)>>, <<x[1], (x[2] + 1) % Cols(sh)>> >>

\* C9. Flow goes only downhill: the inflow a cell receives in a step comes
\* only from those of its four neighbours whose surface H is strictly higher
\* than its own.
DownhillOnly ==
    [][pc = "inflow" =>
        \A x \in Cells(shape) :
            LET from(k) == IF H[Nbrs4(x, shape)[k]] > H[x]
                           THEN Times005(moved[Nbrs4(x, shape)[k]]) ELSE 0
            IN water'[x] = water[x] + from(1) + from(2) + from(3) + from(4)]_vars

\* C10. Wrap-around neighbours: the flux of a cell is measured against exactly
\* its four wrap-around neighbours, and the inflow of a cell is the shares of
\* exactly those four neighbours.
WrapAroundNeighbours ==
    [][/\ pc = "flux" =>
            \A x \in Cells(shape) :
                LET diff(k) == Clip0(H[x] - H[Nbrs4(x, shape)[k]])
                IN flux'[x] = diff(1) + diff(2) + diff(3) + diff(4)
       /\ pc = "inflow" =>
            \A x \in Cells(shape) :
                LET share(k) == Times005(moved[Nbrs4(x, shape)[k]])
                IN water'[x] = water[x] + share(1) + share(2) + share(3) + share(4)
      ]_vars

\* water has crossed the grid's edge: cell (0,0) of a grid of at least three
\* columns is lower than the cell at the other end of its row only, and has
\* received a share of what that cell moved
WrapAroundWitness ==
    /\ pc = "infiltrate" /\ Cols(shape) >= 3
    /\ LET x == <<0, 0>>
           far == <<0, Cols(shape) - 1>>
       IN /\ H[far] > H[x] /\ moved[far] > 0
          /\ \A k \in 1 .. 4 : Nbrs4(x, shape)[k] # far => moved[Nbrs4(x, shape)[k]] = 0
          /\ water[x] > H[x] - dem[x]

\* the 24 orders in which the four neighbour directions can be processed
Perms4 ==
    {<<1, 2, 3, 4>>, <<1, 2, 4, 3>>, <<1, 3, 2, 4>>, <<1, 3, 4, 2>>, <<1, 4, 2, 3>>, <<1, 4, 3, 2>>,
     <<2, 1, 3, 4>>, <<2, 1, 4, 3>>, <<2, 3, 1, 4>>, <<2, 3, 4, 1>>, <<2, 4, 1, 3>>, <<2, 4, 3, 1>>,
     <<3, 1, 2, 4>>, <<3, 1, 4, 2>>, <<3, 2, 1, 4>>, <<3, 2, 4, 1>>, <<3, 4, 1, 2>>, <<3, 4, 2, 1>>,
     <<4, 1, 2, 3>>, <<4, 1, 3, 2>>, <<4, 2, 1, 3>>, <<4, 2, 3, 1>>, <<4, 3, 1, 2>>, <<4, 3, 2, 1>>}

\* the four positive surface differences of cell x towards its neighbours N,
\* read off a surface h
Diffs(h, x, N) ==
    <<Clip0(h[x] - h[N[1]]), Clip0(h[x] - h[N[2]]),
      Clip0(h[x] - h[N[3]]), Clip0(h[x] - h[N[4]])>>

\* the four shares a cell gets from its neighbours N when m is what each moved
Shares(m, N) ==
    <<Times005(m[N[1]]), Times005(m[N[2]]), Times005(m[N[3]]), Times005(m[N[4]])>>

\* four terms accumulated in the order p
SumIn(t, p) == ((t[p[1]] + t[p[2]]) + t[p[3]]) + t[p[4]]

\* C11. Simultaneous update: H is the surface after the step's rain and before
\* any depth is changed; flux and moved of every cell are read off that one
\* snapshot; and after outflow removal and inflow redistribution each cell's
\* depth is a function of the snapshot alone, whatever the order of the
\* neighbour directions (so no cell sees a partially updated neighbour).
SimultaneousUpdate ==
    pc \in {"flux", "outflow", "inflow", "infiltrate"} =>
        \A x \in Cells(shape) :
            LET N == Nbrs4(x, shape)
                d == Diffs(H, x, N)
                s == Shares(moved, N)
                kept == Clip0((H[x] - dem[x]) - moved[x])
            IN /\ pc \in {"flux", "outflow"} => H[x] = dem[x] + water[x]
               /\ pc = "outflow" => \A p \in Perms4 : flux[x] = SumIn(d, p)
               /\ pc \in {"inflow", "infiltrate"} =>
                     /\ flux[x] = SumIn(d, <<1, 2, 3, 4>>)
                     /\ moved[x] = Times02(flux[x])
               /\ pc = "infiltrate" => \A p \in Perms4 : water[x] = kept + SumIn(s, p)

\* after the rain of a run, two different neighbouring cells have both moved
\* water and both depths have changed since the snapshot: an update in place
\* would have shown one of them the other's new depth
SimultaneousUpdateWitness ==
    /\ pc = "infiltrate" /\ rainfall_mm > 0
    /\ \E x \in Cells(shape), k \in 1 .. 4 :
          LET n == Nbrs4(x, shape)[k]
          IN /\ n # x /\ H[x] > H[n]
             /\ moved[x] > 0 /\ moved[n] > 0
             /\ water[x] # H[x] - dem[x] /\ water[n] # H[n] - dem[n]

====
